---- MODULE Spec2Model ----
(***************************************************************************)
(* Model of app/src/main-process/squirrel-updater.ts: the handlers of the  *)
(* Squirrel.Windows lifecycle events, which keep the desktop shortcut, the *)
(* CLI trampoline and the user PATH in step with the installed version.    *)
(*                                                                         *)
(* A text is a sequence of one-character strings.  One step of the model   *)
(* is one callback of the event loop (a child's 'data', 'close' or 'error' *)
(* event, a filesystem callback) or the continuation of a handler after an *)
(* await.                                                                  *)
(***************************************************************************)
EXTENDS Naturals, Integers, Sequences, FiniteSets, TLC

\* ---------------------------------------------------------------- bounds
\* Longest starting user PATH text, in characters.
MaxLen == 3
\* Longest captured stdout text handed to the parser on its own.
MaxText == 5
\* Number of events handled one after the other.
MaxRuns == 2

\* ----------------------------------------------------------------- texts
\* ";" separates, " " and the line end are whitespace, "a" and "b" are
\* ordinary path characters.
Chars == {"a", "b", ";", " "}
NL == "\n"
Whitespace == {" ", NL}

TextsUpTo(n) == UNION {[1..k -> Chars] : k \in 0..n}
StdoutsUpTo(n) == UNION {[1..k -> Chars \cup {NL}] : k \in 0..n}

\* getBinPath(): one fixed directory; it holds no separator and no outer
\* whitespace.
getBinPath == <<"b">>

\* String.prototype.replace(/^\s+|\s+$/g, ''): the leading and the trailing
\* run of whitespace are both removed.
RECURSIVE dropLeadingSpace(_)
dropLeadingSpace(s) ==
  IF s # <<>> /\ Head(s) \in Whitespace THEN dropLeadingSpace(Tail(s)) ELSE s

RECURSIVE dropTrailingSpace(_)
dropTrailingSpace(s) ==
  IF s # <<>> /\ s[Len(s)] \in Whitespace
    THEN dropTrailingSpace(SubSeq(s, 1, Len(s) - 1))
    ELSE s

\* The same replace without the g flag: only the first match goes.
trimFirstMatchOnly(s) ==
  IF s # <<>> /\ Head(s) \in Whitespace THEN dropLeadingSpace(s)
  ELSE dropTrailingSpace(s)

trim(s) == dropTrailingSpace(dropLeadingSpace(s))

\* String.prototype.split(/;+/): the pieces between runs of semicolons, an
\* empty piece before a leading and after a trailing run included.
RECURSIVE splitFrom(_, _, _, _)
splitFrom(s, i, piece, pieces) ==
  IF i > Len(s) THEN Append(pieces, piece)
  ELSE IF s[i] = ";"
    THEN IF i > 1 /\ s[i - 1] = ";"
           THEN splitFrom(s, i + 1, piece, pieces)
           ELSE splitFrom(s, i + 1, <<>>, Append(pieces, piece))
    ELSE splitFrom(s, i + 1, Append(piece, s[i]), pieces)

split(s) == splitFrom(s, 1, <<>>, <<>>)

\* The tail of getPathSegments: trim, split, filter(segment => segment.length).
\* The same without the filter: empty pieces stay.
parsePathOutputUnfiltered(out) == split(trim(out))

parsePathOutput(out) == SelectSeq(split(trim(out)), LAMBDA segment : Len(segment) > 0)

\* Array.prototype.join(';').
RECURSIVE join(_)
join(paths) ==
  IF paths = <<>> THEN <<>>
  ELSE IF Len(paths) = 1 THEN paths[1]
  ELSE paths[1] \o <<";">> \o join(Tail(paths))

\* Array.prototype.indexOf from position `from`: 0-based, -1 when absent.
RECURSIVE indexOfFrom(_, _, _)
indexOfFrom(paths, x, from) ==
  IF from >= Len(paths) THEN -1
  ELSE IF paths[from + 1] = x THEN from
  ELSE indexOfFrom(paths, x, from + 1)

\* A search that never finds its entry.
indexOfNothing(paths, x) == -1

\* An off-by-one search that never looks at the first entry.
indexOfSkippingFirst(paths, x) == indexOfFrom(paths, x, 1)

indexOf(paths, x) == indexOfFrom(paths, x, 0)

\* A filter that drops only the first entry equal to the bin directory.
RECURSIVE withoutFirstBinPath(_)
withoutFirstBinPath(paths) ==
  IF paths = <<>> THEN <<>>
  ELSE IF Head(paths) = getBinPath THEN Tail(paths)
  ELSE <<Head(paths)>> \o withoutFirstBinPath(Tail(paths))

\* paths.filter(p => p !== binPath)
pathsWithoutBinPath(paths) == SelectSeq(paths, LAMBDA p : p # getBinPath)


\* -------------------------------------------------------------- the state
Procs == {1, 2}

VARIABLES
  userPath,     \* the user-scope Path variable, as text
  shortcut,     \* whether <home>/Desktop/GitHub Desktop.lnk exists
  binDir,       \* whether the bin directory exists
  trampoline,   \* <bin>/github.bat: "absent", "stale" (an older version's) or "current"
  proc,         \* per application process: the handler's position and locals
  hist,         \* the runs that have finished, oldest first
  parseText,    \* a captured stdout text given to the parser on its own
  parseResult,  \* what the parser returned for it
  parsed        \* whether the parser has run on parseText

world == <<userPath, shortcut, binDir, trampoline>>
parser == <<parseText, parseResult, parsed>>
vars == <<userPath, shortcut, binDir, trampoline, proc, hist, parseText, parseResult, parsed>>

Install == "--squirrel-install"
Updated == "--squirrel-updated"
Uninstall == "--squirrel-uninstall"
Obsolete == "--squirrel-obsolete"
Recognized == {Install, Updated, Uninstall, Obsolete}
\* Two strings the switch does not list: another Squirrel flag and no flag.
EventNames == Recognized \cup {"--squirrel-firstrun", ""}

CreateShortcutCmd == "Update.exe --createShortcut"
RemoveShortcutCmd == "Update.exe --removeShortcut"
PowershellCmd == "powershell.exe"
SetxCmd == "setx.exe"
Commands == {CreateShortcutCmd, RemoveShortcutCmd, PowershellCmd, SetxCmd}
ExitCodes == {0, 1}

Idle ==
  [eventName |-> "", retval |-> "none", pc |-> "idle", settled |-> "none",
   children |-> {}, fsops |-> {}, stdout |-> <<>>, paths |-> <<>>,
   setxArg |-> <<>>, homeDirectory |-> TRUE, log |-> <<>>,
   start |-> [userPath |-> <<>>, shortcut |-> FALSE, binDir |-> FALSE,
              trampoline |-> "absent"]]

\* The switch of handleSquirrelEvent: which handler an event name selects.
\* A switch whose default creates the shortcut instead of returning null.
handlerForDefaultInstall(eventName) ==
  CASE eventName = Updated -> "handleUpdated"
    [] eventName = Uninstall -> "handleUninstall"
    [] eventName = Obsolete -> "resolve"
    [] OTHER -> "createShortcut"

\* A switch that sends the install event through the update handler.
handlerForInstallUpdates(eventName) ==
  CASE eventName \in {Install, Updated} -> "handleUpdated"
    [] eventName = Uninstall -> "handleUninstall"
    [] eventName = Obsolete -> "resolve"
    [] OTHER -> "null"

handlerFor(eventName) ==
  CASE eventName = Install -> "createShortcut"
    [] eventName = Updated -> "handleUpdated"
    [] eventName = Uninstall -> "handleUninstall"
    [] eventName = Obsolete -> "resolve"
    [] OTHER -> "null"

\* spawn(): ChildProcess.spawn starts the child; the promise is pending.
spawn(r, cmd) ==
  [r EXCEPT !.children = @ \cup {cmd},
            !.settled = "pending",
            !.log = Append(@, <<"spawn", cmd, "">>)]

\* The 'close' listener of spawn: resolve on code 0, reject otherwise.
\* A listener that resolves whatever the exit code.
exitOutcomeIgnoringCode(code) == "resolved"

exitOutcome(code) == IF code = 0 THEN "resolved" ELSE "rejected"

\* await: the handler goes on only once the awaited promise has settled.
\* A call whose promise is left floating: the handler goes on at once.
notAwaited(r) == TRUE

awaited(r) == r.settled # "pending"

\* updateShortcut up to its first asynchronous call.
\* One that creates the shortcut without looking for it.
updateShortcutUnconditional(r) == spawn(r, CreateShortcutCmd)

updateShortcut(r) ==
  IF r.homeDirectory
    THEN [r EXCEPT !.fsops = @ \cup {"exists"},
                   !.settled = "pending",
                   !.log = Append(@, <<"call", "exists", "">>)]
    ELSE spawn(r, CreateShortcutCmd)

\* writeCLITrampoline up to Fs.ensureDir.
writeCLITrampoline(r) ==
  [r EXCEPT !.fsops = @ \cup {"ensureDir"},
            !.settled = "pending",
            !.log = Append(@, <<"call", "ensureDir", "">>)]

\* getPathSegments up to the spawn of powershell.
getPathSegments(r) == spawn([r EXCEPT !.stdout = <<>>], PowershellCmd)

\* setPathSegments: setx.exe Path <paths joined by ';'>.
setPathSegments(r, paths) == spawn([r EXCEPT !.setxArg = join(paths)], SetxCmd)

\* The handler's promise settles, or handleSquirrelEvent returns null.
finish(r, retval) == [r EXCEPT !.pc = "done", !.retval = retval]

summary(r, path) ==
  [eventName |-> r.eventName, retval |-> r.retval, homeDirectory |-> r.homeDirectory,
   start |-> r.start, endPath |-> path, log |-> r.log]

\* A finished run is added to the history (no step that finishes a run
\* changes the user Path).
Recorded(p) ==
  hist' = IF proc'[p].pc = "done"
            THEN Append(hist, summary(proc'[p], userPath))
            ELSE hist

----------------------------------------------------------------------------
\* handleSquirrelEvent(eventName), run to the first asynchronous call.
Dispatch(p, eventName, homeDirectory) ==
  /\ proc[p].pc \in {"idle", "done"}
  /\ LET r == [Idle EXCEPT !.eventName = eventName,
                           !.homeDirectory = homeDirectory,
                           !.start = [userPath |-> userPath, shortcut |-> shortcut,
                                      binDir |-> binDir, trampoline |-> trampoline]]
         h == handlerFor(eventName)
     IN proc' = [proc EXCEPT ![p] =
          CASE h = "createShortcut" ->
                 [spawn(r, CreateShortcutCmd) EXCEPT !.pc = "createShortcut", !.retval = "pending"]
            [] h = "handleUpdated" ->
                 [updateShortcut(r) EXCEPT !.pc = "updateShortcut", !.retval = "pending"]
            [] h = "handleUninstall" ->
                 [spawn(r, RemoveShortcutCmd) EXCEPT !.pc = "removeShortcut", !.retval = "pending"]
            [] h = "resolve" -> finish(r, "resolved")
            [] OTHER -> finish(r, "null")]
  /\ Recorded(p)
  /\ UNCHANGED <<world, parser>>

\* The callback of Fs.exists in updateShortcut.
ExistsCallback(p) ==
  /\ "exists" \in proc[p].fsops
  /\ LET r == [proc[p] EXCEPT !.fsops = @ \ {"exists"},
                              !.log = Append(@, <<"cb", "exists",
                                                  IF shortcut THEN "true" ELSE "false">>)]
     IN proc' = [proc EXCEPT ![p] =
                   IF shortcut THEN spawn(r, CreateShortcutCmd)
                               ELSE [r EXCEPT !.settled = "resolved"]]
  /\ UNCHANGED <<world, hist, parser>>

\* The callback of Fs.ensureDir in writeCLITrampoline.
EnsureDirCallback(p, err) ==
  /\ "ensureDir" \in proc[p].fsops
  /\ LET r == [proc[p] EXCEPT !.fsops = @ \ {"ensureDir"},
                              !.log = Append(@, <<"cb", "ensureDir",
                                                  IF err THEN "failed" ELSE "ok">>)]
     IN proc' = [proc EXCEPT ![p] =
                   IF err THEN [r EXCEPT !.settled = "rejected"]
                          ELSE [r EXCEPT !.fsops = @ \cup {"writeFile"},
                                         !.log = Append(@, <<"call", "writeFile", "">>)]]
  /\ binDir' = (binDir \/ ~err)
  /\ UNCHANGED <<userPath, shortcut, trampoline, hist, parser>>

\* The callback of Fs.writeFile in writeCLITrampoline.
WriteFileCallback(p, err) ==
  /\ "writeFile" \in proc[p].fsops
  /\ proc' = [proc EXCEPT ![p] =
                [@ EXCEPT !.fsops = @ \ {"writeFile"},
                          !.settled = IF err THEN "rejected" ELSE "resolved",
                          !.log = Append(@, <<"cb", "writeFile",
                                              IF err THEN "failed" ELSE "ok">>)]]
  /\ trampoline' = IF err THEN trampoline ELSE "current"
  /\ UNCHANGED <<userPath, shortcut, binDir, hist, parser>>

\* The 'data' event of the powershell child: the script has read the user
\* Path and written it as one line.
PowershellData(p) ==
  /\ PowershellCmd \in proc[p].children
  /\ proc[p].stdout = <<>>
  /\ proc' = [proc EXCEPT ![p].stdout = userPath \o <<NL>>]
  /\ UNCHANGED <<world, hist, parser>>

\* The 'close' event of a child.  A command that exits with 0 has done its
\* work: Update.exe has created or removed the shortcut, setx has replaced
\* the user Path by its argument.
ChildClose(p, cmd, code) ==
  /\ cmd \in proc[p].children
  /\ (cmd = PowershellCmd /\ code = 0) => proc[p].stdout # <<>>
  /\ proc' = [proc EXCEPT ![p] =
                [@ EXCEPT !.children = @ \ {cmd},
                          !.settled = exitOutcome(code),
                          !.log = Append(@, <<"close", cmd,
                                              IF code = 0 THEN "0" ELSE "nonzero">>)]]
  /\ shortcut' = IF code # 0 THEN shortcut
                 ELSE IF cmd = CreateShortcutCmd THEN TRUE
                 ELSE IF cmd = RemoveShortcutCmd THEN FALSE
                 ELSE shortcut
  /\ userPath' = IF code = 0 /\ cmd = SetxCmd THEN proc[p].setxArg ELSE userPath
  /\ UNCHANGED <<binDir, trampoline, hist, parser>>

\* The 'error' event of a child (or ChildProcess.spawn throwing): the command
\* never ran.
ChildError(p, cmd) ==
  /\ cmd \in proc[p].children
  /\ cmd = PowershellCmd => proc[p].stdout = <<>>
  /\ proc' = [proc EXCEPT ![p] =
                [@ EXCEPT !.children = @ \ {cmd},
                          !.settled = "rejected",
                          !.log = Append(@, <<"error", cmd, "">>)]]
  /\ UNCHANGED <<world, hist, parser>>

\* handleUpdated after `await updateShortcut()`.
AfterUpdateShortcut(p) ==
  /\ proc[p].pc = "updateShortcut"
  /\ awaited(proc[p])
  /\ proc' = [proc EXCEPT ![p] =
                IF @.settled = "rejected" THEN finish(@, "rejected")
                ELSE [writeCLITrampoline(@) EXCEPT !.pc = "writeCLITrampoline"]]
  /\ Recorded(p)
  /\ UNCHANGED <<world, parser>>

\* handleUpdated after `await writeCLITrampoline()`.
AfterWriteCLITrampoline(p) ==
  /\ proc[p].pc = "writeCLITrampoline"
  /\ awaited(proc[p])
  /\ proc' = [proc EXCEPT ![p] =
                IF @.settled = "rejected" THEN finish(@, "rejected")
                ELSE [getPathSegments(@) EXCEPT !.pc = "getPathSegments"]]
  /\ Recorded(p)
  /\ UNCHANGED <<world, parser>>

\* handleUninstall after `await removeShortcut()`.
AfterRemoveShortcut(p) ==
  /\ proc[p].pc = "removeShortcut"
  /\ awaited(proc[p])
  /\ proc' = [proc EXCEPT ![p] =
                IF @.settled = "rejected" THEN finish(@, "rejected")
                ELSE [getPathSegments(@) EXCEPT !.pc = "getPathSegments"]]
  /\ Recorded(p)
  /\ UNCHANGED <<world, parser>>

\* After `await spawn(powershellPath, args)`: getPathSegments parses the
\* output and the handler that called it computes and writes the new Path.
AfterGetPathSegments(p) ==
  /\ proc[p].pc = "getPathSegments"
  /\ awaited(proc[p])
  /\ LET r == proc[p]
         paths == parsePathOutput(r.stdout)
         binPath == getBinPath
         s == [r EXCEPT !.paths = paths]
     IN proc' = [proc EXCEPT ![p] =
          IF r.settled = "rejected" THEN finish(r, "rejected")
          ELSE IF handlerFor(r.eventName) = "handleUninstall"
            THEN [setPathSegments(s, pathsWithoutBinPath(paths))
                    EXCEPT !.pc = "setPathSegments"]
          ELSE IF indexOf(paths, binPath) < 0
            THEN [setPathSegments(s, Append(paths, binPath))
                    EXCEPT !.pc = "setPathSegments"]
          ELSE finish(s, "resolved")]
  /\ Recorded(p)
  /\ UNCHANGED <<world, parser>>

\* The last await of a handler settles (createShortcut for the install
\* event, setPathSegments for the other two): so does the handler's promise.
HandlerSettles(p) ==
  /\ proc[p].pc \in {"createShortcut", "setPathSegments"}
  /\ awaited(proc[p])
  /\ proc' = [proc EXCEPT ![p] =
                finish(@, IF @.settled = "rejected" THEN "rejected" ELSE "resolved")]
  /\ Recorded(p)
  /\ UNCHANGED <<world, parser>>

Step(p) ==
  \/ ExistsCallback(p)
  \/ \E err \in BOOLEAN : EnsureDirCallback(p, err)
  \/ \E err \in BOOLEAN : WriteFileCallback(p, err)
  \/ PowershellData(p)
  \/ \E cmd \in Commands, code \in ExitCodes : ChildClose(p, cmd, code)
  \/ \E cmd \in Commands : ChildError(p, cmd)
  \/ AfterUpdateShortcut(p)
  \/ AfterWriteCLITrampoline(p)
  \/ AfterRemoveShortcut(p)
  \/ AfterGetPathSegments(p)
  \/ HandlerSettles(p)

\* ------------------------------------------- one event after the other
\* The installer starts the application once per event: the events are
\* handled one at a time, by process 1.
\* Either nothing is installed yet (no bin directory) or an earlier version
\* has left its bin directory and trampoline.
Worlds ==
  /\ userPath \in TextsUpTo(MaxLen)
  /\ shortcut \in BOOLEAN
  /\ binDir \in BOOLEAN
  /\ trampoline = IF binDir THEN "stale" ELSE "absent"

Init ==
  /\ Worlds
  /\ proc = [p \in Procs |-> Idle]
  /\ hist = <<>>
  /\ parseText = <<>>
  /\ parseResult = <<>>
  /\ parsed = FALSE

HandleEvent ==
  /\ Len(hist) < MaxRuns
  /\ \E eventName \in EventNames :
       \E homeDirectory \in (IF eventName = Updated THEN BOOLEAN ELSE {TRUE}) :
         Dispatch(1, eventName, homeDirectory)

Next == HandleEvent \/ Step(1)

Spec == Init /\ [][Next]_vars

\* ------------------------------------------------ two events at once
\* An updated handler (process 1) and an uninstall handler (process 2) run
\* at the same time on the same user Path.
RaceEvent(p) == IF p = 1 THEN Updated ELSE Uninstall

RaceInit ==
  /\ userPath \in TextsUpTo(MaxLen)
  /\ shortcut \in BOOLEAN
  /\ binDir = TRUE
  /\ trampoline = "stale"
  /\ proc = [p \in Procs |-> Idle]
  /\ hist = <<>>
  /\ parseText = <<>>
  /\ parseResult = <<>>
  /\ parsed = FALSE

RaceStart ==
  \E p \in Procs :
    /\ proc[p].pc = "idle"
    /\ \E homeDirectory \in (IF p = 1 THEN BOOLEAN ELSE {TRUE}) :
         Dispatch(p, RaceEvent(p), homeDirectory)

\* Both handlers have been called before the first callback of either runs:
\* the synchronous start of a handler reads and writes nothing shared.
BothStarted == \A q \in Procs : proc[q].pc # "idle"

RaceStep(p) ==
  \/ BothStarted /\ ExistsCallback(p)
  \/ BothStarted /\ \E err \in BOOLEAN : EnsureDirCallback(p, err)
  \/ BothStarted /\ \E err \in BOOLEAN : WriteFileCallback(p, err)
  \/ BothStarted /\ PowershellData(p)
  \/ BothStarted /\ \E cmd \in Commands, code \in ExitCodes : ChildClose(p, cmd, code)
  \/ BothStarted /\ \E cmd \in Commands : ChildError(p, cmd)
  \/ BothStarted /\ AfterUpdateShortcut(p)
  \/ BothStarted /\ AfterWriteCLITrampoline(p)
  \/ BothStarted /\ AfterRemoveShortcut(p)
  \/ BothStarted /\ AfterGetPathSegments(p)
  \/ BothStarted /\ HandlerSettles(p)

RaceNext == RaceStart \/ \E p \in Procs : RaceStep(p)

SpecRace == RaceInit /\ [][RaceNext]_vars

\* ------------------------------------------------ the parser on its own
ParseInit ==
  /\ userPath = <<>>
  /\ shortcut = FALSE
  /\ binDir = FALSE
  /\ trampoline = "absent"
  /\ proc = [p \in Procs |-> Idle]
  /\ hist = <<>>
  /\ parseText \in StdoutsUpTo(MaxText)
  /\ parseResult = <<>>
  /\ parsed = FALSE

Parse ==
  /\ ~parsed
  /\ parseResult' = parsePathOutput(parseText)
  /\ parsed' = TRUE
  /\ UNCHANGED <<world, proc, hist, parseText>>

SpecParse == ParseInit /\ [][Parse]_vars

----------------------------------------------------------------------------
\* What the properties speak of, stated without the operators of the code.

\* The entries of seq at the positions in keep, in their order in seq.
Pick(seq, keep) ==
  LET nth(k) == CHOOSE i \in keep : Cardinality({j \in keep : j < i}) = k - 1
  IN [k \in 1..Cardinality(keep) |-> seq[nth(k)]]

\* A text without its leading and trailing whitespace.
Trimmed(text) ==
  LET solid == {i \in 1..Len(text) : text[i] \notin Whitespace}
  IN IF solid = {} THEN <<>>
     ELSE SubSeq(text, CHOOSE i \in solid : \A j \in solid : i <= j,
                       CHOOSE i \in solid : \A j \in solid : j <= i)

\* The maximal runs of characters other than ";" of a text, left to right.
Runs(text) ==
  LET starts == {i \in 1..Len(text) :
                   text[i] # ";" /\ (i = 1 \/ text[i - 1] = ";")}
      end(i) == CHOOSE j \in i..Len(text) :
                   /\ \A k \in i..j : text[k] # ";"
                   /\ j = Len(text) \/ text[j + 1] = ";"
      first == Pick([i \in 1..Len(text) |-> i], starts)
  IN [k \in 1..Cardinality(starts) |-> SubSeq(text, first[k], end(first[k]))]

\* The segments of a user Path: the runs of its text once trimmed.
Segments(text) == Runs(Trimmed(text))

\* No segment of the text begins or ends with whitespace.
Clean(text) ==
  \A i \in DOMAIN text :
    text[i] \in Whitespace =>
      /\ i > 1 /\ text[i - 1] # ";"
      /\ i < Len(text) /\ text[i + 1] # ";"

Count(seq, x) == Cardinality({i \in DOMAIN seq : seq[i] = x})

Without(seq, x) == Pick(seq, {i \in DOMAIN seq : seq[i] # x})

Entries(log, kind, what) ==
  Cardinality({i \in DOMAIN log : log[i][1] = kind /\ log[i][2] = what})

Finished(h, eventName) == h.eventName = eventName /\ h.retval = "resolved"

\* C7: for every captured text, getPathSegments returns exactly the maximal
\* non-empty runs between semicolons of the trimmed text, in order and with
\* repetitions kept; no segment is empty, and a text of whitespace alone
\* gives no segment.
C7_ParseIsRuns ==
  parsed =>
    /\ parseResult = Segments(parseText)
    /\ \A i \in DOMAIN parseResult : parseResult[i] # <<>>
    /\ (\A i \in DOMAIN parseText : parseText[i] \in Whitespace) => parseResult = <<>>

\* The spec's example " C:\A;;C:\B; " in small: outer whitespace, a doubled
\* and a trailing separator, and a repeated segment.
C7_Witness ==
  /\ parsed
  /\ parseText = <<" ", "a", ";", ";", "a">>
  /\ parseResult = << <<"a">>, <<"a">> >>


\* C1 as stated: a successful uninstall writes the starting Path with exactly
\* one occurrence of the bin directory taken out (and, read in its favour,
\* the starting Path itself when that holds none).
C1_RemovesExactlyOne ==
  \A n \in DOMAIN hist :
    Finished(hist[n], Uninstall) =>
      LET S == Segments(hist[n].start.userPath)
      IN IF Count(S, getBinPath) = 0 THEN hist[n].endPath = join(S)
         ELSE \E i \in DOMAIN S :
                /\ S[i] = getBinPath
                /\ hist[n].endPath = join(Pick(S, DOMAIN S \ {i}))

\* C1, amended: a successful uninstall writes, once, the segments of the
\* starting Path with every occurrence of the bin directory taken out (none
\* when there is none), the other segments and their order unchanged.
C1_RemovesEvery ==
  \A n \in DOMAIN hist :
    Finished(hist[n], Uninstall) =>
      /\ hist[n].endPath = join(Without(Segments(hist[n].start.userPath), getBinPath))
      /\ Entries(hist[n].log, "spawn", SetxCmd) = 1

C1_Witness ==
  \E n \in DOMAIN hist :
    /\ Finished(hist[n], Uninstall)
    /\ Count(Segments(hist[n].start.userPath), getBinPath) = 2
    /\ hist[n].endPath = <<>>

\* C2 as stated: after a successful update the bin directory occurs exactly
\* once in the user Path, whatever the starting Path.
C2_ExactlyOnce ==
  \A n \in DOMAIN hist :
    Finished(hist[n], Updated) => Count(Segments(hist[n].endPath), getBinPath) = 1

\* C2, amended: a successful update appends the bin directory once when the
\* starting Path lacks it and otherwise leaves the Path as it was; afterwards
\* the bin directory occurs at least once, and exactly once when the
\* starting Path held it at most once and none of its segments begins or
\* ends with whitespace.
C2_AppendsWhenAbsent ==
  \A n \in DOMAIN hist :
    Finished(hist[n], Updated) =>
      LET S == Segments(hist[n].start.userPath)
          had == Count(S, getBinPath)
      IN /\ hist[n].endPath = IF had = 0 THEN join(S \o <<getBinPath>>)
                              ELSE hist[n].start.userPath
         /\ Count(Segments(hist[n].endPath), getBinPath) >= 1
         /\ (had <= 1 /\ Clean(hist[n].start.userPath)) =>
              Count(Segments(hist[n].endPath), getBinPath) = 1

C2_Witness ==
  \E n \in DOMAIN hist :
    /\ Finished(hist[n], Updated)
    /\ Segments(hist[n].start.userPath) = << <<"a">> >>
    /\ hist[n].endPath = <<"a", ";", "b">>

\* C3: of two successful updates in a row the second leaves the Path as the
\* first left it and spawns no setx; over both runs the bin directory is
\* appended at most once.
C3_UpdatedIdempotent ==
  \A n \in DOMAIN hist :
    (n > 1 /\ Finished(hist[n - 1], Updated) /\ Finished(hist[n], Updated)) =>
      /\ hist[n].start.userPath = hist[n - 1].endPath
      /\ hist[n].endPath = hist[n - 1].endPath
      /\ Entries(hist[n].log, "spawn", SetxCmd) = 0
      /\ Entries(hist[n - 1].log, "spawn", SetxCmd) <= 1
      /\ hist[n].endPath \in
           {hist[n - 1].start.userPath,
            join(Segments(hist[n - 1].start.userPath) \o <<getBinPath>>)}

C3_Witness ==
  /\ Len(hist) = 2
  /\ Finished(hist[1], Updated)
  /\ Finished(hist[2], Updated)
  /\ Entries(hist[1].log, "close", SetxCmd) = 1
  /\ hist[2].endPath = <<"a", ";", "b">>

\* C4: in every handler a command that exits with a non-zero status is the
\* last thing the handler does: nothing is spawned, called or written after
\* it, nothing is left running, and the handler's promise is rejected.
NonZeroExit(entry) == entry[1] = "close" /\ entry[3] = "nonzero"

C4_FailureStops ==
  \A p \in Procs :
    \A i \in DOMAIN proc[p].log :
      NonZeroExit(proc[p].log[i]) =>
        /\ i = Len(proc[p].log)
        /\ proc[p].children = {}
        /\ proc[p].fsops = {}
        /\ proc[p].settled = "rejected"
        /\ proc[p].retval \in {"pending", "rejected"}
        /\ proc[p].pc = "done" => proc[p].retval = "rejected"

C4_Witness ==
  /\ proc[1].eventName = Updated
  /\ proc[1].pc = "done"
  /\ proc[1].retval = "rejected"
  /\ proc[1].log[Len(proc[1].log)] = <<"close", PowershellCmd, "nonzero">>
  /\ userPath = proc[1].start.userPath

\* updateShortcut has run to its end in the current handler.
ShortcutRefreshed(r) ==
  /\ r.eventName = Updated
  /\ r.pc # "idle"
  /\ r.pc = "updateShortcut" => r.settled # "pending"

\* C5 as stated: whatever the home directory lookup returns, updateShortcut
\* spawns no creation command when the shortcut file does not exist and
\* exactly one when it does.
C5_CreatesIffExists ==
  ShortcutRefreshed(proc[1]) =>
    Entries(proc[1].log, "spawn", CreateShortcutCmd)
      = IF proc[1].start.shortcut THEN 1 ELSE 0

\* C5, amended: when the home directory is known, updateShortcut spawns no
\* creation command if the shortcut file does not exist and exactly one if
\* it does; when the home directory is not known it spawns exactly one,
\* whether or not the file exists.
C5_CreatesIffExistsOrNoHome ==
  ShortcutRefreshed(proc[1]) =>
    Entries(proc[1].log, "spawn", CreateShortcutCmd)
      = IF proc[1].start.shortcut \/ ~proc[1].homeDirectory THEN 1 ELSE 0

C5_Witness ==
  /\ ShortcutRefreshed(proc[1])
  /\ proc[1].homeDirectory
  /\ ~proc[1].start.shortcut
  /\ proc[1].pc = "done"
  /\ proc[1].retval = "resolved"
  /\ Entries(proc[1].log, "spawn", CreateShortcutCmd) = 0

StartWorld(r) ==
  /\ userPath = r.start.userPath
  /\ shortcut = r.start.shortcut
  /\ binDir = r.start.binDir
  /\ trampoline = r.start.trampoline

\* C6: for an event name outside the four recognized ones handleSquirrelEvent
\* returns null and does no I/O: nothing is spawned or called, and the user
\* Path, the trampoline and the shortcut are as they were.
C6_UnrecognizedIsNull ==
  (proc[1].pc # "idle" /\ proc[1].eventName \notin Recognized) =>
    /\ proc[1].pc = "done"
    /\ proc[1].retval = "null"
    /\ proc[1].log = <<>>
    /\ proc[1].children = {}
    /\ proc[1].fsops = {}
    /\ StartWorld(proc[1])

C6_Witness ==
  /\ proc[1].pc = "done"
  /\ proc[1].eventName = "--squirrel-firstrun"
  /\ proc[1].retval = "null"
  /\ Len(hist) = 2
  /\ Finished(hist[1], Updated)

\* The step of handleUpdated an entry of the log belongs to.
Phase(entry) ==
  CASE entry[2] \in {"exists", CreateShortcutCmd} -> 1
    [] entry[2] \in {"ensureDir", "writeFile"} -> 2
    [] entry[2] = PowershellCmd -> 3
    [] entry[2] = SetxCmd -> 4
    [] OTHER -> 0

Starts(entry) == entry[1] \in {"spawn", "call"}

\* C8: in a run of handleUpdated the shortcut refresh, the trampoline write,
\* the Path read and the Path write happen in this order, each finished
\* before the next begins; no handler ever has two operations under way.
C8_OneAtATimeInOrder ==
  /\ \A p \in Procs : Cardinality(proc[p].children) + Cardinality(proc[p].fsops) <= 1
  /\ proc[1].eventName = Updated =>
       LET log == proc[1].log
       IN /\ \A i, j \in DOMAIN log : i < j => Phase(log[i]) <= Phase(log[j])
          /\ \A i \in DOMAIN log :
               (Starts(log[i]) /\ i < Len(log)) =>
                 (~Starts(log[i + 1]) /\ log[i + 1][2] = log[i][2])
          /\ \A i \in DOMAIN log : Phase(log[i]) > 0

C8_Witness ==
  /\ proc[1].eventName = Updated
  /\ proc[1].pc = "done"
  /\ proc[1].retval = "resolved"
  /\ proc[1].log = << <<"call", "exists", "">>, <<"cb", "exists", "true">>,
                      <<"spawn", CreateShortcutCmd, "">>, <<"close", CreateShortcutCmd, "0">>,
                      <<"call", "ensureDir", "">>, <<"cb", "ensureDir", "ok">>,
                      <<"call", "writeFile", "">>, <<"cb", "writeFile", "ok">>,
                      <<"spawn", PowershellCmd, "">>, <<"close", PowershellCmd, "0">>,
                      <<"spawn", SetxCmd, "">>, <<"close", SetxCmd, "0">> >>

\* C9: only the updated and the uninstall handler write the user Path and
\* only the updated handler writes the trampoline: any other event leaves
\* both as they were, and the uninstall handler leaves the trampoline (and
\* the bin directory) as it was.
C9_WhoWritesWhat ==
  LET r == proc[1]
      touchesPath == Entries(r.log, "spawn", SetxCmd) > 0
      touchesTrampoline ==
        Entries(r.log, "call", "ensureDir") + Entries(r.log, "call", "writeFile") > 0
  IN /\ (r.pc # "idle" /\ r.eventName \notin {Updated, Uninstall}) =>
          /\ ~touchesPath
          /\ ~touchesTrampoline
          /\ userPath = r.start.userPath
          /\ trampoline = r.start.trampoline
          /\ binDir = r.start.binDir
     /\ (r.pc # "idle" /\ r.eventName = Uninstall) =>
          /\ ~touchesTrampoline
          /\ trampoline = r.start.trampoline
          /\ binDir = r.start.binDir

C9_Witness ==
  /\ Len(hist) = 2
  /\ Finished(hist[1], Uninstall)
  /\ Finished(hist[2], Install)
  /\ hist[1].start.userPath = <<"a", ";", "b">>
  /\ hist[1].start.trampoline = "stale"
  /\ userPath = <<"a">>
  /\ trampoline = "stale"

\* What a successful handleUpdated, and a successful handleUninstall, running
\* alone leave as the user Path, given the Path they start from.
updatedLeaves(text) ==
  LET paths == parsePathOutput(text \o <<NL>>)
  IN IF indexOf(paths, getBinPath) < 0 THEN join(Append(paths, getBinPath)) ELSE text

uninstallLeaves(text) == join(pathsWithoutBinPath(parsePathOutput(text \o <<NL>>)))

\* The runs of the history are as these two say.
RunsAloneAgree ==
  \A n \in DOMAIN hist :
    /\ Finished(hist[n], Updated) => hist[n].endPath = updatedLeaves(hist[n].start.userPath)
    /\ Finished(hist[n], Uninstall) => hist[n].endPath = uninstallLeaves(hist[n].start.userPath)

BothSucceeded ==
  \A p \in Procs : proc[p].pc = "done" /\ proc[p].retval = "resolved"

\* C10 as stated: an updated and an uninstall handler running at once, both
\* successful, on a starting Path that holds the bin directory at most once:
\* the final Path has the segments one of the two serial orders leaves.
C10_RaceIsSerializable ==
  LET start == proc[1].start.userPath
  IN (BothSucceeded /\ Count(Segments(start), getBinPath) <= 1) =>
       Segments(userPath) \in {Segments(uninstallLeaves(updatedLeaves(start))),
                               Segments(updatedLeaves(uninstallLeaves(start)))}

\* C10, amended: the same for a starting Path none of whose segments begins
\* or ends with whitespace; the final Path is then, as text, the one that
\* one of the two serial orders leaves.
C10_CleanRaceIsSerializable ==
  LET start == proc[1].start.userPath
  IN (BothSucceeded /\ Count(Segments(start), getBinPath) <= 1 /\ Clean(start)) =>
       userPath \in {uninstallLeaves(updatedLeaves(start)),
                     updatedLeaves(uninstallLeaves(start))}

\* The lost-update interleaving: the uninstall handler read the Path before
\* the updated handler wrote it and wrote its own afterwards.
C10_Witness ==
  /\ BothSucceeded
  /\ proc[1].start.userPath = <<"a">>
  /\ Entries(proc[1].log, "close", SetxCmd) = 1
  /\ proc[1].setxArg = <<"a", ";", "b">>
  /\ proc[2].paths = << <<"a">> >>
  /\ hist[1].eventName = Updated
  /\ userPath = <<"a">>

====
